---- MODULE Spec2Model ----
(***************************************************************************)
(* The request-routing orchestrator of the QSR menu tutorials.             *)
(*                                                                         *)
(* 1-LangChain.ipynb builds one SQL agent executor over a shared           *)
(* SQLDatabase (create_sql_agent with AgentType.ZERO_SHOT_REACT_           *)
(* DESCRIPTION and no further options) and calls invoke / run on it.  The  *)
(* loop below is that executor: the LLM (the oracle) answers each turn     *)
(* with tool calls or a final answer, the executor runs each named tool    *)
(* and appends its observation, and it stops on a final answer, on the     *)
(* iteration limit, or when the LLM call raises.  The Supervisor step in   *)
(* front of it is the planned third notebook, known from README.md only.   *)
(***************************************************************************)
EXTENDS Integers, Sequences, FiniteSets, TLC

(* ---- bounds of the model ---- *)
MaxTurns == 2        \* executor iteration limit used by Spec
MaxCalls == 2        \* most tool calls the oracle emits in one turn
MaxToolCalls == 2    \* most tool calls of one request explored in Spec
ConcTurns == 1       \* iteration limit used by ConcSpec
ConcToolCalls == 1   \* most tool calls of one request explored in ConcSpec

Requests == {"r1", "r2"}

VARIABLES reqs, budget, callCap, state, agent, conv, pending, turns, routed,
          answers, result, db

vars == <<reqs, budget, callCap, state, agent, conv, pending, turns, routed,
          answers, result, db>>

(* ---- static data ---- *)
Stmts == {"SELECT", "DROP TABLE menu", "SELEC"}
ReadOnlyStmts == {"SELECT"}
InitDb == {"menu", "nutrition_facts"}

SqlTools == {"sql_db_list_tables", "sql_db_schema", "sql_db_query_checker",
             "sql_db_query"}
ImageTool == "analyze_competitor_menu_image"
KnownCapabilities == {"sql_agent", "competitor_agent"}
RouteAnswers == KnownCapabilities \cup {"menu_agent"}

AgentTools(ag) ==
  IF ag = "competitor_agent" THEN SqlTools \cup {ImageTool} ELSE SqlTools

Calls ==
  {[tool |-> "sql_db_list_tables", arg |-> "-"],
   [tool |-> "sql_db_schema", arg |-> "menu"],
   [tool |-> ImageTool, arg |-> "image"]}
  \cup {[tool |-> "sql_db_query_checker", arg |-> s] : s \in Stmts}
  \cup {[tool |-> "sql_db_query", arg |-> s] : s \in Stmts}

\* what the oracle may emit in one turn: the ReAct agent of notebook 1 emits
\* one Action per turn, a tool-calling agent may emit several
Emissions(n) == UNION {[1..k -> Calls] : k \in 1..n}

(* ---- ConversationState entries ---- *)
\* turn is the AGENT_TURN iteration that produced the entry (0 before it)
Entry(k, ag, t, d, s, n) ==
  [kind |-> k, agent |-> ag, tool |-> t, data |-> d, status |-> s, turn |-> n]

RequestEntry(r) == Entry("Request", "-", "-", r, "-", 0)
DecisionEntry(cap) == Entry("Decision", "supervisor", "-", cap, "-", 0)
ToolCallEntry(ag, c, n) == Entry("ToolCall", ag, c.tool, c.arg, "-", n)
FinalEntry(ag, n) == Entry("FinalAnswer", ag, "-", "answer", "-", n)

NoResult == [kind |-> "none", value |-> "-"]

(* ---- the SQL collaborator (SQLDatabase over the shared engine) ---- *)
list_tables(d) ==
  [status |-> "ok",
   payload |-> IF "menu" \in d THEN "menu, nutrition_facts"
               ELSE "nutrition_facts",
   db |-> d]

schema(d) ==
  IF "menu" \in d
    THEN [status |-> "ok", payload |-> "CREATE TABLE menu", db |-> d]
    ELSE [status |-> "error", payload |-> "Error: no such table", db |-> d]

run_checked(s, d) ==
  IF s = "SELEC"
    THEN [status |-> "error", payload |-> "Error: syntax", db |-> d]
    ELSE [status |-> "ok", payload |-> s, db |-> d]

\* run_no_throw: the statement is executed whatever its kind; a failure is
\* returned as an "Error: ..." text instead of being raised.
run_no_throw(s, d) ==
  CASE s = "SELEC" ->
         [status |-> "error", payload |-> "Error: syntax", db |-> d]
    [] "menu" \notin d ->
         [status |-> "error", payload |-> "Error: no such table", db |-> d]
    [] s = "DROP TABLE menu" ->
         [status |-> "ok", payload |-> "", db |-> d \ {"menu"}]
    [] OTHER ->
         [status |-> "ok", payload |-> "rows", db |-> d]

(* ---- Tool Registry: name -> capability ---- *)
invoke(ag, c, d) ==
  CASE c.tool \notin AgentTools(ag) ->
         [status |-> "error", payload |-> "not a valid tool", db |-> d]
    [] c.tool = "sql_db_list_tables" -> list_tables(d)
    [] c.tool = "sql_db_schema" -> schema(d)
    [] c.tool = "sql_db_query_checker" -> run_checked(c.arg, d)
    [] c.tool = "sql_db_query" -> run_no_throw(c.arg, d)
    [] OTHER -> [status |-> "ok", payload |-> "items", db |-> d]

\* a dispatch that records the call and loses its observation
DispatchEntries_NoResult(ag, c, x, n) == <<ToolCallEntry(ag, c, n)>>

\* what one dispatch appends: the call, then its observation
DispatchEntries(ag, c, x, n) ==
  <<ToolCallEntry(ag, c, n),
    Entry("ToolResult", ag, c.tool, x.payload, x.status, n)>>

(* ---- Supervisor (planned, README.md; default policy from the design) ---- *)
\* a router that passes an unknown capability_id through
Route_NoDefault(answer) == answer

Route(answer) ==
  IF answer \in KnownCapabilities THEN answer ELSE "sql_agent"

(* ---- executor control flow ---- *)
\* an iteration limit that is off by one
ShouldContinue_OffByOne(t, b) == t <= b

ShouldContinue(t, b) == t < b

\* an executor that keeps looping after a final answer
AfterTurn_KeepsGoing(kind) ==
  CASE kind = "final" -> "AGENT_TURN"
    [] kind = "down" -> "FAILED"
    [] OTHER -> "TOOL_DISPATCH"

AfterTurn(kind) ==
  CASE kind = "final" -> "DONE"
    [] kind = "down" -> "FAILED"
    [] OTHER -> "TOOL_DISPATCH"

\* an executor that aborts when a tool reports an error
AfterDispatch_FailOnError(status, rest, t, b) ==
  IF status = "error" THEN "FAILED"
  ELSE IF rest # <<>> THEN "TOOL_DISPATCH"
  ELSE IF t < b THEN "AGENT_TURN"
  ELSE "FAILED"

\* an executor that goes back to the Supervisor after each dispatch
AfterDispatch_Reroute(status, rest, t, b) ==
  IF rest # <<>> THEN "TOOL_DISPATCH"
  ELSE IF t < b THEN "ROUTING"
  ELSE "FAILED"

AfterDispatch(status, rest, t, b) ==
  IF rest # <<>> THEN "TOOL_DISPATCH"
  ELSE IF ShouldContinue(t, b) THEN "AGENT_TURN"
  ELSE "FAILED"

\* what the caller of invoke / run gets back
StoppedResponse == [kind |-> "output", value |-> "IterationLimit"]
RaisedError == [kind |-> "exception", value |-> "OracleUnavailable"]
RoutingFailure == [kind |-> "reason", value |-> "OracleUnavailable"]
AnswerOutput == [kind |-> "output", value |-> "answer"]

NumCalls(cv) == Cardinality({i \in 1..Len(cv) : cv[i].kind = "ToolCall"})

Answer(k, tgt, cs) == [kind |-> k, target |-> tgt, calls |-> cs]

(* ---- initial states ---- *)
InitFor(rs, b, cap) ==
  /\ reqs = rs
  /\ budget = b
  /\ callCap = cap
  /\ state = [r \in rs |-> "ROUTING"]
  /\ agent = [r \in rs |-> "none"]
  /\ conv = [r \in rs |-> <<RequestEntry(r)>>]
  /\ pending = [r \in rs |-> <<>>]
  /\ turns = [r \in rs |-> 0]
  /\ routed = [r \in rs |-> 0]
  /\ answers = [r \in rs |-> <<>>]
  /\ result = [r \in rs |-> NoResult]
  /\ db = InitDb

Init == InitFor({"r1"}, MaxTurns, MaxToolCalls)

ConcInit == InitFor(Requests, ConcTurns, ConcToolCalls)

(* ---- ROUTING -> AGENT_TURN | FAILED ---- *)
RouteTo(r) ==
  /\ r \in reqs
  /\ state[r] = "ROUTING"
  /\ \E a \in RouteAnswers :
       /\ agent' = [agent EXCEPT ![r] = Route(a)]
       /\ conv' = [conv EXCEPT ![r] = Append(@, DecisionEntry(Route(a)))]
       /\ answers' = [answers EXCEPT ![r] = Append(@, Answer("route", a, <<>>))]
  /\ routed' = [routed EXCEPT ![r] = @ + 1]
  /\ state' = [state EXCEPT ![r] = "AGENT_TURN"]
  /\ UNCHANGED <<reqs, budget, callCap, pending, turns, result, db>>

RouteDown(r) ==
  /\ r \in reqs
  /\ state[r] = "ROUTING"
  /\ routed' = [routed EXCEPT ![r] = @ + 1]
  /\ answers' = [answers EXCEPT ![r] = Append(@, Answer("down", "-", <<>>))]
  /\ state' = [state EXCEPT ![r] = "FAILED"]
  /\ result' = [result EXCEPT ![r] = RoutingFailure]
  /\ UNCHANGED <<reqs, budget, callCap, agent, conv, pending, turns, db>>

(* ---- AGENT_TURN: one oracle consultation ---- *)
AgentCalls(r) ==
  /\ r \in reqs
  /\ state[r] = "AGENT_TURN"
  /\ \E cs \in Emissions(MaxCalls) :
       /\ NumCalls(conv[r]) + Len(cs) <= callCap
       /\ pending' = [pending EXCEPT ![r] = cs]
       /\ answers' = [answers EXCEPT ![r] = Append(@, Answer("calls", "-", cs))]
  /\ turns' = [turns EXCEPT ![r] = @ + 1]
  /\ state' = [state EXCEPT ![r] = AfterTurn("calls")]
  /\ UNCHANGED <<reqs, budget, callCap, agent, conv, routed, result, db>>

AgentFinal(r) ==
  /\ r \in reqs
  /\ state[r] = "AGENT_TURN"
  /\ turns' = [turns EXCEPT ![r] = @ + 1]
  /\ conv' = [conv EXCEPT ![r] = Append(@, FinalEntry(agent[r], turns[r] + 1))]
  /\ answers' = [answers EXCEPT ![r] = Append(@, Answer("final", "-", <<>>))]
  /\ state' = [state EXCEPT ![r] = AfterTurn("final")]
  /\ result' = [result EXCEPT ![r] = AnswerOutput]
  /\ UNCHANGED <<reqs, budget, callCap, agent, pending, routed, db>>

OracleDown(r) ==
  /\ r \in reqs
  /\ state[r] = "AGENT_TURN"
  /\ turns' = [turns EXCEPT ![r] = @ + 1]
  /\ answers' = [answers EXCEPT ![r] = Append(@, Answer("down", "-", <<>>))]
  /\ state' = [state EXCEPT ![r] = AfterTurn("down")]
  /\ result' = [result EXCEPT ![r] = RaisedError]
  /\ UNCHANGED <<reqs, budget, callCap, agent, conv, pending, routed, db>>

(* ---- TOOL_DISPATCH: run the next emitted call ---- *)
\* a dispatcher that takes the most recently emitted call first
NextCall_Newest(p) == p[Len(p)]

\* the calls of a turn are taken in the order the oracle emitted them
NextCall(p) == Head(p)

ToolDispatch(r) ==
  /\ r \in reqs
  /\ state[r] = "TOOL_DISPATCH"
  /\ pending[r] # <<>>
  /\ LET c == NextCall(pending[r])
         x == invoke(agent[r], c, db)
         next == AfterDispatch(x.status, Tail(pending[r]), turns[r], budget)
     IN /\ conv' = [conv EXCEPT ![r] = @ \o DispatchEntries(agent[r], c, x, turns[r])]
        /\ db' = x.db
        /\ pending' = [pending EXCEPT ![r] = Tail(@)]
        /\ state' = [state EXCEPT ![r] = next]
        /\ result' = [result EXCEPT ![r] =
                        IF next = "FAILED" THEN StoppedResponse ELSE @]
  /\ UNCHANGED <<reqs, budget, callCap, agent, turns, routed, answers>>

Step(r) ==
  \/ RouteTo(r)
  \/ RouteDown(r)
  \/ AgentCalls(r)
  \/ AgentFinal(r)
  \/ OracleDown(r)
  \/ ToolDispatch(r)

Next == \E r \in Requests : Step(r)

Spec == Init /\ [][Next]_vars

ConcSpec == ConcInit /\ [][Next]_vars

LiveSpec == Init /\ [][Next]_vars /\ \A r \in Requests : WF_vars(Step(r))

Terminal(r) == state[r] \in {"DONE", "FAILED"}


Last(sq) == sq[Len(sq)]

IsCall(e, t) == e.kind = "ToolCall" /\ e.tool = t

(* ======================= properties ======================= *)

\* C1: in every reachable ConversationState there is at most one FinalAnswer
\* entry; if one is present it is the last entry and the loop has halted in
\* DONE.
C1_FinalAnswerLast ==
  \A r \in reqs :
    /\ Cardinality({i \in 1..Len(conv[r]) : conv[r][i].kind = "FinalAnswer"}) <= 1
    /\ \A i \in 1..Len(conv[r]) :
         conv[r][i].kind = "FinalAnswer" =>
           /\ i = Len(conv[r])
           /\ state[r] = "DONE"
           /\ pending[r] = <<>>

\* a FinalAnswer was appended in a later turn, after tool dispatches
C1_Witness ==
  \E r \in reqs :
    /\ state[r] = "DONE"
    /\ Last(conv[r]).kind = "FinalAnswer"
    /\ NumCalls(conv[r]) >= 2
    /\ turns[r] >= 2

\* C2: every ToolCall in a ConversationState is immediately followed by a
\* ToolResult of the same tool, and whenever the oracle can be consulted
\* (ROUTING, AGENT_TURN) no emitted call is waiting for its result, also when
\* one turn emitted several calls.
C2_NoDanglingCalls ==
  \A r \in reqs :
    /\ \A i \in 1..Len(conv[r]) :
         conv[r][i].kind = "ToolCall" =>
           /\ i < Len(conv[r])
           /\ conv[r][i + 1].kind = "ToolResult"
           /\ conv[r][i + 1].tool = conv[r][i].tool
           /\ conv[r][i + 1].status \in {"ok", "error"}
    /\ \A i \in 1..Len(conv[r]) :
         conv[r][i].kind = "ToolResult" =>
           /\ i > 1
           /\ conv[r][i - 1].kind = "ToolCall"
    /\ state[r] \in {"ROUTING", "AGENT_TURN"} => pending[r] = <<>>

\* a turn that emitted two calls has had both dispatched and control is back
\* at the agent
C2_Witness ==
  \E r \in reqs :
    /\ state[r] = "AGENT_TURN"
    /\ Len(Last(answers[r]).calls) = 2
    /\ NumCalls(conv[r]) >= 2
    /\ Last(conv[r]).kind = "ToolResult"


\* C3: the loop always reaches a terminal state; the number of AGENT_TURN
\* iterations never exceeds the budget; DONE is reached exactly by a
\* FinalAnswer; when the oracle stays reachable and never emits a FinalAnswer
\* the loop ends in FAILED reporting the iteration limit, after exactly
\* budget turns.
C3_TurnsBounded ==
  \A r \in reqs :
    /\ turns[r] <= budget
    /\ state[r] = "DONE" <=> Last(conv[r]).kind = "FinalAnswer"
    /\ (Terminal(r) /\ \A i \in 1..Len(answers[r]) :
                          answers[r][i].kind \in {"route", "calls"})
         => /\ state[r] = "FAILED"
            /\ result[r] = StoppedResponse
            /\ turns[r] = budget
    /\ (state[r] = "FAILED" /\ result[r] = StoppedResponse)
         => /\ turns[r] = budget
            /\ \A i \in 1..Len(conv[r]) : conv[r][i].kind # "FinalAnswer"

C3_Terminates ==
  /\ []C3_TurnsBounded
  /\ <>[](\A r \in reqs : Terminal(r))

\* the budget ran out on an oracle that proposed a tool call in every turn
C3_Witness ==
  \E r \in reqs :
    /\ state[r] = "FAILED"
    /\ result[r] = StoppedResponse
    /\ turns[r] = budget
    /\ \A i \in 2..Len(answers[r]) : answers[r][i].kind = "calls"

\* C4: a statement is dispatched to sql_db_query only after
\* sql_db_query_checker was applied to it and passed; a statement whose check
\* failed is not dispatched to sql_db_query in the same turn; a failed check
\* is recorded as a ToolResult with status error.
C4_ValidateBeforeExecute ==
  \A r \in reqs : \A i \in 1..Len(conv[r]) :
    /\ IsCall(conv[r][i], "sql_db_query") =>
         /\ \E j \in 1..(i - 1) :
              /\ IsCall(conv[r][j], "sql_db_query_checker")
              /\ conv[r][j].data = conv[r][i].data
              /\ conv[r][j + 1].status = "ok"
         /\ ~ \E j \in 1..(i - 1) :
              /\ IsCall(conv[r][j], "sql_db_query_checker")
              /\ conv[r][j].data = conv[r][i].data
              /\ conv[r][j].turn = conv[r][i].turn
              /\ conv[r][j + 1].status = "error"
    /\ (IsCall(conv[r][i], "sql_db_query_checker") /\ i < Len(conv[r])
        /\ ~ run_checked(conv[r][i].data, db).status = "ok")
         => conv[r][i + 1].status = "error"

\* C5: no statement outside the read-only kinds is executed: a proposed
\* sql_db_query of such a statement gets an error result, and the database
\* keeps its initial contents.
C5_ReadOnlyOnly ==
  /\ db = InitDb
  /\ \A r \in reqs : \A i \in 1..Len(conv[r]) :
       (IsCall(conv[r][i], "sql_db_query") /\ conv[r][i].data \notin ReadOnlyStmts
        /\ i < Len(conv[r]))
         => conv[r][i + 1].status = "error"

\* C6: a dispatch whose tool fails appends a ToolResult with status error,
\* raises nothing, and (once the turn's calls are dispatched and the budget
\* is not used up) hands control back to the same agent in AGENT_TURN; it ends
\* in FAILED only when the budget is used up.
C6_ToolFailureStep ==
  \A r \in reqs :
    (/\ state[r] = "TOOL_DISPATCH"
     /\ conv'[r] # conv[r]
     /\ invoke(agent[r], Head(pending[r]), db).status = "error")
      => /\ Last(conv'[r]).kind = "ToolResult"
         /\ Last(conv'[r]).status = "error"
         /\ Len(conv'[r]) = Len(conv[r]) + 2
         /\ result'[r].kind # "exception"
         /\ agent'[r] = agent[r]
         /\ (pending'[r] = <<>> /\ turns[r] < budget) => state'[r] = "AGENT_TURN"
         /\ pending'[r] # <<>> => state'[r] = "TOOL_DISPATCH"
         /\ state'[r] = "FAILED" =>
              /\ turns[r] = budget
              /\ result'[r] = StoppedResponse

C6_ToolFailureRecoverable == [][C6_ToolFailureStep]_vars

\* the oracle is about to be consulted again right after a failed tool call
C6_Witness ==
  \E r \in reqs :
    /\ state[r] = "AGENT_TURN"
    /\ turns[r] >= 1
    /\ Last(conv[r]).kind = "ToolResult"
    /\ Last(conv[r]).status = "error"

\* C7: when the routing answer is no known capability_id the SQL Agent is
\* selected and the loop goes from ROUTING to AGENT_TURN; the request is not
\* failed by the mismatch.
C7_RoutingDefault ==
  \A r \in reqs :
    (/\ answers[r] # <<>>
     /\ answers[r][1].kind = "route"
     /\ answers[r][1].target \notin KnownCapabilities)
      => /\ agent[r] = "sql_agent"
         /\ conv[r][2] = DecisionEntry("sql_agent")
         /\ state[r] # "ROUTING"
         /\ Len(answers[r]) = 1 => state[r] = "AGENT_TURN"
         /\ state[r] = "FAILED" => turns[r] >= 1

\* an unknown capability_id was answered and the SQL Agent takes its turn
C7_Witness ==
  \E r \in reqs :
    /\ answers[r] # <<>>
    /\ answers[r][1] = Answer("route", "menu_agent", <<>>)
    /\ state[r] = "AGENT_TURN"
    /\ agent[r] = "sql_agent"

\* C8: FAILED is entered only on budget exhaustion or an infrastructure
\* failure, and the value returned from FAILED is a structured reason naming
\* which of the two it was, not a raw exception.
C8_FailedStructured ==
  \A r \in reqs :
    state[r] = "FAILED" =>
      /\ result[r].kind = "reason"
      /\ result[r].value \in {"IterationLimit", "OracleUnavailable"}
      /\ result[r].value = "IterationLimit" => turns[r] = budget
      /\ result[r].value = "OracleUnavailable" => Last(answers[r]).kind = "down"


(* ---- a request run alone against the same oracle answers ---- *)
RECURSIVE SoloCalls(_, _, _, _, _)
SoloCalls(ag, cs, cv, d, n) ==
  IF cs = <<>> THEN [cv |-> cv, db |-> d]
  ELSE LET x == invoke(ag, Head(cs), d)
       IN SoloCalls(ag, Tail(cs), cv \o DispatchEntries(ag, Head(cs), x, n),
                    x.db, n)

RECURSIVE SoloReplay(_, _, _, _, _)
SoloReplay(as, cv, d, ag, n) ==
  IF as = <<>> THEN cv
  ELSE LET a == Head(as)
       IN CASE a.kind = "route" ->
                 SoloReplay(Tail(as), Append(cv, DecisionEntry(Route(a.target))),
                            d, Route(a.target), n)
            [] a.kind = "final" -> Append(cv, FinalEntry(ag, n + 1))
            [] a.kind = "calls" ->
                 LET x == SoloCalls(ag, a.calls, cv, d, n + 1)
                 IN SoloReplay(Tail(as), x.cv, x.db, ag, n + 1)
            [] OTHER -> cv

SoloConv(r) == SoloReplay(answers[r], <<RequestEntry(r)>>, InitDb, "none", 0)

SoloResult(r) ==
  LET as == answers[r]
  IN CASE Last(as).kind = "final" -> AnswerOutput
       [] Last(as).kind = "down" ->
            IF Len(as) = 1 THEN RoutingFailure ELSE RaisedError
       [] OTHER -> StoppedResponse

IsPrefix(a, b) == Len(a) <= Len(b) /\ SubSeq(b, 1, Len(a)) = a

\* C9: under every interleaving of two requests, each request's
\* ConversationState is the one it has when run alone against the same oracle
\* answers (a prefix of it while calls are still to be dispatched), and so is
\* its terminal result.
C9_Isolation ==
  \A r \in reqs :
    /\ IsPrefix(conv[r], SoloConv(r))
    /\ pending[r] = <<>> => conv[r] = SoloConv(r)
    /\ Terminal(r) => result[r] = SoloResult(r)

\* C10: the oracle is consulted for routing exactly once per request, the
\* ConversationState holds one Decision, and every ToolCall, ToolResult and
\* FinalAnswer after it belongs to the agent that Decision selected.
C10_AgentFixed ==
  \A r \in reqs :
    /\ routed[r] <= 1
    /\ state[r] # "ROUTING" => routed[r] = 1
    /\ Cardinality({i \in 1..Len(conv[r]) : conv[r][i].kind = "Decision"}) <= 1
    /\ \A i \in 1..Len(conv[r]) :
         conv[r][i].kind \in {"ToolCall", "ToolResult", "FinalAnswer"} =>
           /\ conv[r][2].kind = "Decision"
           /\ conv[r][i].agent = conv[r][2].data
           /\ agent[r] = conv[r][2].data

\* the Competitor-Analysis Agent, once selected, takes its second turn after
\* a tool dispatch
C10_Witness ==
  \E r \in reqs :
    /\ agent[r] = "competitor_agent"
    /\ turns[r] = 2
    /\ state[r] = "TOOL_DISPATCH"
    /\ NumCalls(conv[r]) >= 1


(* ---- the calls the oracle emitted, and the calls the state records ---- *)
RECURSIVE EmittedCalls(_)
EmittedCalls(as) ==
  IF as = <<>> THEN <<>> ELSE Head(as).calls \o EmittedCalls(Tail(as))

RECURSIVE RecordedCalls(_)
RecordedCalls(cv) ==
  IF cv = <<>> THEN <<>>
  ELSE IF Head(cv).kind = "ToolCall"
    THEN <<[tool |-> Head(cv).tool, arg |-> Head(cv).data]>>
           \o RecordedCalls(Tail(cv))
    ELSE RecordedCalls(Tail(cv))

\* the ConversationState records the emitted calls in emission order, the
\* calls still to dispatch being the rest of the emission, each recorded call
\* directly followed by the result the registry gives for it
C11_OrderState ==
  \A r \in reqs :
    /\ RecordedCalls(conv[r]) \o pending[r] = EmittedCalls(answers[r])
    /\ \A i \in 1..Len(conv[r]) :
         conv[r][i].kind = "ToolCall" =>
           /\ i < Len(conv[r])
           /\ conv[r][i + 1].kind = "ToolResult"
           /\ conv[r][i + 1].tool = conv[r][i].tool
           /\ conv[r][i + 1].turn = conv[r][i].turn
    /\ \A i, j \in 1..Len(conv[r]) :
         i < j => conv[r][i].turn <= conv[r][j].turn

\* a step only appends to a ConversationState, and appends at most one call
\* with its result
C11_AppendStep ==
  \A r \in reqs :
    /\ IsPrefix(conv[r], conv'[r])
    /\ NumCalls(conv'[r]) <= NumCalls(conv[r]) + 1
    /\ Len(conv'[r]) <= Len(conv[r]) + 2

====
